---- MODULE Spec2Model ----
(***************************************************************************)
(* Model of the AQI forecasting backend: backend/time_series_models.py     *)
(* (class TimeSeriesModels) and the prediction helpers of backend/main.py. *)
(*                                                                         *)
(* Dates are day numbers.  Real quantities (AQI values, model outputs,     *)
(* noise) are fixed-point integers counted in units of 1/Scale, so that    *)
(* the mean of up to twelve first differences and the rounding of halves   *)
(* are exact.  Library calls whose result the repository does not decide   *)
(* (statsmodels / pmdarima fits and forecasts, the random generator, the   *)
(* wall clock) are nondeterministic choices over bounded sets.             *)
(***************************************************************************)
EXTENDS Integers, Sequences, FiniteSets, TLC

\* ------------------------------------------------------------------ bounds
MaxLen == 15
MaxSteps == 2
MaxReq == 2
MaxLag == 8

\* ------------------------------------------------------- program constants
MinPoints == 14
PadTarget == 15
DefaultPeriod == 7
PredictSteps == 7

\* fixed-point unit: lcm(1..12), every mean of at most 12 integers is exact
Scale == 8 * 9 * 5 * 7 * 11

Procs == {1, 2}
Active == {1}

\* ---------------------------------------------------------------- helpers
Max2(a, b) == IF a >= b THEN a ELSE b
Min2(a, b) == IF a <= b THEN a ELSE b

RECURSIVE SumSeq(_)
SumSeq(s) == IF s = <<>> THEN 0 ELSE Head(s) + SumSeq(Tail(s))

\* Python round() on a fixed-point number: nearest integer, ties to even
PyRound(x) ==
  LET q == x \div Scale
      r == x - q * Scale
  IN  IF 2 * r < Scale THEN q
      ELSE IF 2 * r > Scale THEN q + 1
      ELSE IF q % 2 = 0 THEN q ELSE q + 1

\* ------------------------------------------------------------ data frames
\* A frame is [idx, rows]: idx = "column" (dates in a 'date' column),
\* "index" (DatetimeIndex) or "none" (no dates at all, RangeIndex).
Row(d, v, o) == [date |-> d, aqi |-> v, pm25 |-> o]
Frame(i, r) == [idx |-> i, rows |-> r]
EmptyFrame == Frame("none", <<>>)

DatesOf(rows) == {rows[k].date : k \in 1..Len(rows)}
RowsOf(rows) == {rows[k] : k \in 1..Len(rows)}
IsSortedRows(rows) == \A k \in 1..(Len(rows) - 1) : rows[k].date <= rows[k + 1].date
StrictlyIncreasing(rows) == \A k \in 1..(Len(rows) - 1) : rows[k].date < rows[k + 1].date

RECURSIVE InsertRow(_, _)
InsertRow(r, sorted) ==
  IF sorted = <<>> THEN <<r>>
  ELSE IF r.date < Head(sorted).date THEN <<r>> \o sorted
  ELSE <<Head(sorted)>> \o InsertRow(r, Tail(sorted))

\* df.sort_values('date') / df.sort_index(): ascending by date
RECURSIVE SortByDate(_)
SortByDate(rows) ==
  IF rows = <<>> THEN <<>> ELSE InsertRow(rows[Len(rows)], SortByDate(SubSeq(rows, 1, Len(rows) - 1)))

\* np.random.normal(0, 5): the i-th draw of a request, read off a cycle of
\* representative draws starting at a nondeterministic offset (the seed)
NoiseCycle == << 0, 0 - (7 * Scale + Scale \div 2), 5 * Scale + Scale \div 3 >>
Seeds == 0..(Len(NoiseCycle) - 1)
Noise(seed, i) == NoiseCycle[((seed + i) % Len(NoiseCycle)) + 1]

\* a slip: the sum of the differences divided by the number of points
AvgChangePerPoint(rows) ==
  IF Len(rows) > 1
  THEN SumSeq([k \in 1..(Len(rows) - 1) |-> rows[k + 1].aqi - rows[k].aqi]) \div Len(rows)
  ELSE 0

\* lines 44-49: mean of the successive first differences of the target
AvgChange(rows) ==
  IF Len(rows) > 1
  THEN LET changes == [k \in 1..(Len(rows) - 1) |-> rows[k + 1].aqi - rows[k].aqi]
       IN  SumSeq(changes) \div Len(changes)
  ELSE 0

\* a slip: the synthetic rows dated after the earliest date
SyntheticRowsForward(rows, seed) ==
  [i \in 1..(PadTarget - Len(rows)) |->
     Row(rows[1].date + i, Max2(0, rows[1].aqi - (AvgChange(rows) * i) + Noise(seed, i)), 0)]

\* lines 53-64: the synthetic rows, i = 1 .. 15 - len(df)
SyntheticRows(rows, seed) ==
  LET earliest == rows[1].date
      avg == AvgChange(rows)
      base == rows[1].aqi
  IN  [i \in 1..(PadTarget - Len(rows)) |->
         Row(earliest - i, Max2(0, base - (avg * i) + Noise(seed, i)), 0)]

\* TimeSeriesModels.prepare_data_for_ts; raised = IndexError of df.iloc[0]
\* on an empty dated frame (line 57)
prepare_data_for_ts(data, seed) ==
  LET sorted == IF data.idx = "column" THEN SortByDate(data.rows) ELSE data.rows
      idx == IF data.idx = "column" THEN "index" ELSE data.idx
  IN  IF Len(sorted) < MinPoints /\ idx = "index"
      THEN IF sorted = <<>>
           THEN [raised |-> TRUE, df |-> Frame(idx, sorted)]
           ELSE [raised |-> FALSE,
                 df |-> Frame(idx, SortByDate(sorted \o SyntheticRows(sorted, seed)))]
      ELSE [raised |-> FALSE, df |-> Frame(idx, sorted)]

\* ------------------------------------------------------------ model store
\* A fitted model is [id, alg]; id is fresh per successful fit.
NoModel == [id |-> 0, alg |-> "none"]
Model(id, alg) == [id |-> id, alg |-> alg]
Slots == {"arima", "sarimax", "auto_arima"}
EmptyStore == [s \in Slots |-> NoModel]

\* TimeSeriesModels.load_model: models/<model_name>_model.pkl, None if absent
load_model(model_name, st) == IF model_name \in Slots THEN st[model_name] ELSE NoModel

\* str.lower() / str.upper() on the model names the requests use
Lower(s) ==
  CASE s \in {"ARIMA", "arima"} -> "arima"
    [] s \in {"SARIMAX", "sarimax"} -> "sarimax"
    [] s \in {"Linear", "linear"} -> "linear"
    [] OTHER -> s
Upper(s) ==
  CASE s \in {"ARIMA", "arima"} -> "ARIMA"
    [] s \in {"SARIMAX", "sarimax"} -> "SARIMAX"
    [] s \in {"Linear", "linear"} -> "LINEAR"
    [] s = "auto_arima" -> "AUTO_ARIMA"
    [] s = "prophet" -> "PROPHET"
    [] OTHER -> s

\* ---------------------------------------------------------------- fitters
\* Every fitter returns [raised, model, store, ev, period]: whether it raised,
\* the model it returned, the store after its joblib.dump calls, the log of
\* the call (the strategy entered: "Seasonal", "AutoSearch" or "FixedOrder",
\* then the nested calls and the saves, in order) and the seasonal period.
FitResult(r, m, st, ev, per) == [raised |-> r, model |-> m, store |-> st, ev |-> ev, period |-> per]

ArimaOutcomes == {"ok", "raise"}
\* TimeSeriesModels.fit_arima_model (order (5,1,0)): prepare, fit, dump
fit_arima_model(data, o, st, id, seed) ==
  LET prep == prepare_data_for_ts(data, seed)
  IN  IF prep.raised THEN FitResult(TRUE, NoModel, st, <<"FixedOrder">>, 0)
      ELSE IF o = "ok"
      THEN FitResult(FALSE, Model(id, "arima"), [st EXCEPT !["arima"] = Model(id, "arima")],
                     <<"FixedOrder", "SaveArima">>, 0)
      ELSE FitResult(TRUE, NoModel, st, <<"FixedOrder">>, 0)

AutoOutcomes == {"ok", "raise", "raise_after_save"}
\* TimeSeriesModels.auto_arima_forecast: prepare, pm.auto_arima, dump, predict
auto_arima_forecast(data, o, st, id, seed) ==
  LET prep == prepare_data_for_ts(data, seed)
      saved == [st EXCEPT !["auto_arima"] = Model(id, "auto")]
  IN  IF prep.raised THEN FitResult(TRUE, NoModel, st, <<"AutoSearch">>, 0)
      ELSE IF o = "ok"
      THEN FitResult(FALSE, Model(id, "auto"), saved, <<"AutoSearch", "SaveAuto">>, 0)
      ELSE IF o = "raise_after_save"
      THEN FitResult(TRUE, NoModel, saved, <<"AutoSearch", "SaveAuto">>, 0)
      ELSE FitResult(TRUE, NoModel, st, <<"AutoSearch">>, 0)

\* lines 193-196: the seasonal period handed to SARIMAX
ShrinkPeriod(n, period) == IF n < period THEN Min2(7, n \div 2) ELSE period

SarimaxOutcomes == {"build_raise", "ok", "fit_raise"} \X ArimaOutcomes
\* TimeSeriesModels.fit_sarimax_model: prepare, shrink the period, build the
\* SARIMAX model (line 199, outside the try), fit it inside the try; on a fit
\* error fall back to fit_arima_model(data)
fit_sarimax_model(data, period, o, st, id, seed) ==
  LET prep == prepare_data_for_ts(data, seed)
      per == ShrinkPeriod(Len(prep.df.rows), period)
  IN  IF prep.raised THEN FitResult(TRUE, NoModel, st, <<"Seasonal">>, 0)
      ELSE IF o[1] = "build_raise"
      THEN FitResult(TRUE, NoModel, st, <<"Seasonal">>, per)
      ELSE IF o[1] = "ok"
      THEN FitResult(FALSE, Model(id, "sarimax"), [st EXCEPT !["sarimax"] = Model(id, "sarimax")],
                     <<"Seasonal", "SaveSarimax">>, per)
      ELSE LET fb == fit_arima_model(data, o[2], st, id, seed)
           IN  FitResult(fb.raised, fb.model, fb.store, <<"Seasonal">> \o fb.ev, per)

\* a slip: an unknown kind defaults to the fixed-order fit
FitByNameArimaDefault(model_name, data, oa, os, ou, st, id, seed) ==
  IF Lower(model_name) = "sarimax"
  THEN fit_sarimax_model(data, DefaultPeriod, <<os, oa>>, st, id, seed)
  ELSE fit_arima_model(data, oa, st, id, seed)

\* lines 291-297 and 305-311: the fitter chosen by model_name.lower()
FitByName(model_name, data, oa, os, ou, st, id, seed) ==
  IF Lower(model_name) = "arima" THEN fit_arima_model(data, oa, st, id, seed)
  ELSE IF Lower(model_name) = "sarimax"
  THEN fit_sarimax_model(data, DefaultPeriod, <<os, oa>>, st, id, seed)
  ELSE auto_arima_forecast(data, ou, st, id, seed)

\* model.forecast(steps): the raw outputs, read off a cycle of representative
\* values (negative, halves, fractions) from a nondeterministic offset
RawCycle == << 0 - (3 * Scale) \div 2, Scale \div 2, (5 * Scale) \div 2, 7 * Scale + Scale \div 3, 0 - Scale \div 4 >>
RawOffsets == 0..(Len(RawCycle) - 1)
RawForecast(k, n) == [i \in 1..n |-> RawCycle[((k + i) % Len(RawCycle)) + 1]]

\* a slip: rounded but not floored at zero
PostValueNoFloor(x) == PyRound(x) * Scale

\* line 323: lambda x: max(0, round(x)), kept in fixed-point units
PostValue(x) == Max2(0, PyRound(x)) * Scale

\* a slip: last_date read from the first index entry
LastDateFirst(rows) == rows[1].date

\* line 284: last_date = df.index[-1]
LastDate(rows) == rows[Len(rows)].date

\* lines 316-325: the forecast frame of forecast_with_model
FRow(d, v, f) == [date |-> d, aqi |-> v, predicted |-> f]
ForecastFrame(last_date, rawvals, n) ==
  [i \in 1..n |-> FRow(last_date + i, PostValue(rawvals[i]), TRUE)]

\* ------------------------------------------------------------------ inputs
Lens == {0, 1, 5, MinPoints - 1, MinPoints, MaxLen}
Shapes == {"flat", "rise", "bumpy"}
FirstDate == 30
ShapeDate(shape, k) ==
  CASE shape = "flat" -> FirstDate + k
    [] shape = "rise" -> FirstDate + 2 * k
    [] OTHER -> FirstDate + k + (k \div 3)
ShapeAqi(shape, k) ==
  CASE shape = "flat" -> 40 * Scale
    [] shape = "rise" -> 30 * k * Scale
    [] OTHER -> (((k * k) % 7) * 10 + 5) * Scale
Reverse(s) == [k \in 1..Len(s) |-> s[Len(s) + 1 - k]]
SeriesRows(n, shape) == [k \in 1..n |-> Row(ShapeDate(shape, k), ShapeAqi(shape, k), 9 * Scale)]
\* request bodies: dated series in ascending ("flat", "bumpy") or descending
\* ("rise") order of arrival, and undated frames
RawSeries(n, shape) == IF shape = "rise" THEN Reverse(SeriesRows(n, shape)) ELSE SeriesRows(n, shape)
\* the series the direct calls of prepare_data_for_ts are given
PrepInputs == {Frame("column", RawSeries(n, sh)) : n \in 0..MaxLen, sh \in Shapes}
\* the series of the requests: one shape per length
MainShape(n) == CASE n % 3 = 0 -> "flat" [] n % 3 = 1 -> "bumpy" [] OTHER -> "rise"
DatedInputs == {Frame("column", RawSeries(n, MainShape(n))) : n \in Lens}
UndatedInputs == {Frame("none", [k \in 1..n |-> Row(0, ShapeAqi("bumpy", k), 0)]) : n \in Lens}
\* what predict_aqi hands to generate_predictions: sorted by date (line 117)
SortedInputs == {Frame("column", SortByDate(f.rows)) : f \in DatedInputs}
Lags == {0, 1, PredictSteps, MaxLag}
DirectNames == {"arima", "sarimax", "SARIMAX", "auto_arima", "prophet"}
PredictNames == {"ARIMA", "sarimax", "Linear"}
CsvNames == {"arima", "SARIMAX", "Linear"}
Periods == {DefaultPeriod, 4}
\* undated frames of 3 and 10 rows for the direct calls of fit_sarimax_model
ShortUndated == {Frame("none", [k \in 1..n |-> Row(0, ShapeAqi("bumpy", k), 0)]) : n \in {3, 10}}

\* --------------------------------------------------------------- the state
VARIABLES pc, op, name, data, steps, today, seed, df, model, raw, result, err,
          trace, period, store, nextId, reqs

vars == << pc, op, name, data, steps, today, seed, df, model, raw, result, err,
           trace, period, store, nextId, reqs >>

Set(f, p, v) == [f EXCEPT ![p] = v]

Init ==
  /\ pc = [p \in Procs |-> "idle"]
  /\ op = [p \in Procs |-> "none"]
  /\ name = [p \in Procs |-> "none"]
  /\ data = [p \in Procs |-> EmptyFrame]
  /\ steps = [p \in Procs |-> 0]
  /\ today = [p \in Procs |-> 0]
  /\ seed = [p \in Procs |-> 0]
  /\ df = [p \in Procs |-> EmptyFrame]
  /\ model = [p \in Procs |-> NoModel]
  /\ raw = [p \in Procs |-> <<>>]
  /\ result = [p \in Procs |-> <<>>]
  /\ err = [p \in Procs |-> "none"]
  /\ trace = [p \in Procs |-> <<>>]
  /\ period = [p \in Procs |-> 0]
  /\ store = EmptyStore
  /\ nextId = 1
  /\ reqs = 0

\* ----------------------------------------------------------------- requests
Finished(p) == pc[p] \in {"done", "failed"}

\* a new call: its arguments, and every local of the previous call forgotten
Begin(p, o, nm, d, n, td, per, first) ==
  /\ pc[p] = "idle"
  /\ reqs < MaxReq
  /\ reqs' = reqs + 1
  /\ pc' = Set(pc, p, first)
  /\ op' = Set(op, p, o)
  /\ name' = Set(name, p, nm)
  /\ data' = Set(data, p, d)
  /\ steps' = Set(steps, p, n)
  /\ today' = Set(today, p, td)
  /\ period' = Set(period, p, per)
  /\ UNCHANGED << seed, df, model, raw, result, err, trace, store, nextId >>

\* POST /api/predict: predict_aqi sorts the points and calls generate_predictions
RequestPredict(p) ==
  \E nm \in PredictNames, d \in SortedInputs, lag \in Lags :
    Begin(p, "predict", nm, d, PredictSteps,
          (IF d.rows = <<>> THEN FirstDate ELSE LastDate(d.rows)) + lag, 0, "gp_start")

\* POST /api/predict-csv: predict_from_csv calls generate_predictions_from_csv
RequestCsv(p) ==
  \E nm \in CsvNames, d \in DatedInputs :
    Begin(p, "csv", nm, d, PredictSteps, 0, 0, "csv_start")

\* a direct call of TimeSeriesModels.forecast_with_model
RequestDirect(p) ==
  \E nm \in DirectNames, d \in DatedInputs \cup UndatedInputs, n \in 1..MaxSteps :
    Begin(p, "direct", nm, d, n, 0, 0, "fwm_prepare")

\* a direct call of TimeSeriesModels.get_best_model_for_data
RequestBest(p) ==
  \E d \in DatedInputs \cup UndatedInputs :
    Begin(p, "best", "none", d, 0, 0, 0, "best_start")

\* a direct call of TimeSeriesModels.fit_sarimax_model
RequestSarimaxFit(p) ==
  \E d \in DatedInputs \cup UndatedInputs \cup ShortUndated, per \in Periods :
    Begin(p, "sarfit", "none", d, 0, 0, per, "sar_call")

\* a direct call of TimeSeriesModels.prepare_data_for_ts
RequestPrepare(p) ==
  \E d \in PrepInputs \cup UndatedInputs :
    Begin(p, "prepare", "none", d, 0, 0, 0, "prep_call")

\* the call is over: its locals are gone, only the model store remains
Return(p) ==
  /\ Finished(p)
  /\ pc' = Set(pc, p, "idle")
  /\ op' = Set(op, p, "none")
  /\ name' = Set(name, p, "none")
  /\ data' = Set(data, p, EmptyFrame)
  /\ steps' = Set(steps, p, 0)
  /\ today' = Set(today, p, 0)
  /\ period' = Set(period, p, 0)
  /\ seed' = Set(seed, p, 0)
  /\ df' = Set(df, p, EmptyFrame)
  /\ model' = Set(model, p, NoModel)
  /\ raw' = Set(raw, p, <<>>)
  /\ result' = Set(result, p, <<>>)
  /\ err' = Set(err, p, "none")
  /\ trace' = Set(trace, p, <<>>)
  /\ UNCHANGED << store, nextId, reqs >>

\* an exception leaving forecast_with_model: generate_predictions swallows it
\* (lines 400-403) and returns an empty frame, the other callers let it pass
Raised(p, e) ==
  /\ pc' = Set(pc, p, IF op[p] = "predict" THEN "done" ELSE "failed")
  /\ err' = Set(err, p, e)
  /\ result' = Set(result, p, <<>>)

\* lines 23-73, called on its own
prep_call(p) ==
  /\ pc[p] = "prep_call"
  /\ \E sd \in Seeds :
       LET prep == prepare_data_for_ts(data[p], sd)
           padded == Len(prep.df.rows) # Len(data[p].rows)
       IN  /\ seed' = Set(seed, p, IF padded THEN sd ELSE 0)
           /\ df' = Set(df, p, prep.df)
           /\ pc' = Set(pc, p, IF prep.raised THEN "failed" ELSE "done")
           /\ err' = Set(err, p, IF prep.raised THEN "prepare" ELSE "none")
  /\ UNCHANGED << op, name, data, steps, today, model, raw, result, trace, period, store, nextId, reqs >>

\* ------------------------------------------------------ forecast_with_model
\* lines 283-284
fwm_prepare(p) ==
  /\ pc[p] = "fwm_prepare"
  /\ \E sd \in Seeds :
       LET prep == prepare_data_for_ts(data[p], sd)
           padded == Len(prep.df.rows) # Len(data[p].rows)
       IN  /\ seed' = Set(seed, p, IF padded THEN sd ELSE 0)
           /\ IF prep.raised \/ prep.df.rows = <<>>
              THEN Raised(p, "prepare") /\ UNCHANGED df
              ELSE /\ df' = Set(df, p, prep.df)
                   /\ pc' = Set(pc, p, "fwm_load")
                   /\ UNCHANGED << err, result >>
  /\ UNCHANGED << op, name, data, steps, today, model, raw, trace, period, store, nextId, reqs >>

\* a slip: the loaded model is ignored and a model is always fitted
fwm_load_always_fit(p) ==
  /\ pc[p] = "fwm_load"
  /\ model' = Set(model, p, load_model(name[p], store))
  /\ trace' = Set(trace, p, Append(trace[p], "Load"))
  /\ pc' = Set(pc, p, "fwm_fit")
  /\ UNCHANGED << op, name, data, steps, today, seed, df, raw, result, err, period, store, nextId, reqs >>

\* lines 287-289
fwm_load(p) ==
  /\ pc[p] = "fwm_load"
  /\ model' = Set(model, p, load_model(name[p], store))
  /\ trace' = Set(trace, p, Append(trace[p], "Load"))
  /\ pc' = Set(pc, p, IF load_model(name[p], store) = NoModel THEN "fwm_fit" ELSE "fwm_forecast")
  /\ UNCHANGED << op, name, data, steps, today, seed, df, raw, result, err, period, store, nextId, reqs >>

\* the effect of one fitter call made by forecast_with_model
FitStep(p, r, mark, e, next) ==
  /\ store' = r.store
  /\ nextId' = IF r.store # store THEN nextId + 1 ELSE nextId
  /\ trace' = Set(trace, p, trace[p] \o mark \o r.ev)
  /\ period' = Set(period, p, r.period)
  /\ IF r.raised
     THEN Raised(p, e) /\ UNCHANGED model
     ELSE /\ model' = Set(model, p, r.model)
          /\ pc' = Set(pc, p, next)
          /\ UNCHANGED << err, result >>

\* lines 289-297
fwm_fit(p) ==
  /\ pc[p] = "fwm_fit"
  /\ \E oa \in ArimaOutcomes, os \in {"build_raise", "ok", "fit_raise"}, ou \in AutoOutcomes :
       FitStep(p, FitByName(name[p], df[p], oa, os, ou, store, nextId, seed[p]),
               <<>>, "fit", "fwm_forecast")
  /\ UNCHANGED << op, name, data, steps, today, seed, df, raw, reqs >>

\* lines 300-303
fwm_forecast(p) ==
  /\ pc[p] = "fwm_forecast"
  /\ trace' = Set(trace, p, Append(trace[p], "Forecast"))
  /\ \/ /\ pc' = Set(pc, p, "fwm_refit")
        /\ UNCHANGED raw
     \/ \E k \in RawOffsets :
          /\ raw' = Set(raw, p, RawForecast(k, steps[p]))
          /\ pc' = Set(pc, p, "fwm_post")
  /\ UNCHANGED << op, name, data, steps, today, seed, df, model, result, err, period, store, nextId, reqs >>

\* lines 304-311
fwm_refit(p) ==
  /\ pc[p] = "fwm_refit"
  /\ \E oa \in ArimaOutcomes, os \in {"build_raise", "ok", "fit_raise"}, ou \in AutoOutcomes :
       FitStep(p, FitByName(name[p], df[p], oa, os, ou, store, nextId, seed[p]),
               <<"Refit">>, "refit", "fwm_retry")
  /\ UNCHANGED << op, name, data, steps, today, seed, df, raw, reqs >>

\* a slip: a failed retry goes back to refitting
fwm_retry_again(p) ==
  /\ pc[p] = "fwm_retry"
  /\ trace' = Set(trace, p, Append(trace[p], "Forecast"))
  /\ \/ /\ pc' = Set(pc, p, "fwm_refit")
        /\ UNCHANGED << raw, err, result >>
     \/ \E k \in RawOffsets :
          /\ raw' = Set(raw, p, RawForecast(k, steps[p]))
          /\ pc' = Set(pc, p, "fwm_post")
          /\ UNCHANGED << err, result >>
  /\ UNCHANGED << op, name, data, steps, today, seed, df, model, period, store, nextId, reqs >>

\* line 313
fwm_retry(p) ==
  /\ pc[p] = "fwm_retry"
  /\ trace' = Set(trace, p, Append(trace[p], "Forecast"))
  /\ \/ Raised(p, "forecast") /\ UNCHANGED raw
     \/ \E k \in RawOffsets :
          /\ raw' = Set(raw, p, RawForecast(k, steps[p]))
          /\ pc' = Set(pc, p, "fwm_post")
          /\ UNCHANGED << err, result >>
  /\ UNCHANGED << op, name, data, steps, today, seed, df, model, period, store, nextId, reqs >>

\* lines 315-325; without a DatetimeIndex last_date + timedelta raises
fwm_post(p) ==
  /\ pc[p] = "fwm_post"
  /\ IF df[p].idx # "index"
     THEN Raised(p, "post")
     ELSE /\ result' = Set(result, p, ForecastFrame(LastDate(df[p].rows), raw[p], steps[p]))
          /\ pc' = Set(pc, p, CASE op[p] = "predict" -> "gp_merge"
                                [] op[p] = "csv" -> "csv_merge"
                                [] OTHER -> "done")
          /\ UNCHANGED err
  /\ UNCHANGED << op, name, data, steps, today, seed, df, model, raw, trace, period, store, nextId, reqs >>

\* --------------------------------------------------------- main.py callers
IsTimeSeries(model_name) == Upper(model_name) \in {"ARIMA", "SARIMAX"}

\* main.py lines 355-367: the linear heuristic of generate_predictions
HeuristicPredict(td, rows, sd) ==
  LET last_aqi == rows[Len(rows)].aqi
  IN  [k \in 1..PredictSteps |->
         FRow(td + (k - 1),
              (IF k = 1 THEN PyRound(last_aqi)
               ELSE PyRound(Max2(0, last_aqi - (k - 1) * 2 * Scale + Noise(sd, k)))) * Scale,
              TRUE)]

\* main.py lines 240-285 and 311-367
generate_predictions(p) ==
  /\ pc[p] = "gp_start"
  /\ IF data[p].rows = <<>>
     THEN /\ pc' = Set(pc, p, "done")
          /\ UNCHANGED << name, result >>
     ELSE IF IsTimeSeries(name[p])
     THEN /\ name' = Set(name, p, IF Upper(name[p]) = "SARIMAX" THEN "sarimax" ELSE "arima")
          /\ pc' = Set(pc, p, "fwm_prepare")
          /\ UNCHANGED result
     ELSE /\ \E sd \in Seeds : result' = Set(result, p, HeuristicPredict(today[p], data[p].rows, sd))
          /\ pc' = Set(pc, p, "done")
          /\ UNCHANGED name
  /\ UNCHANGED << op, data, steps, today, seed, df, model, raw, err, trace, period, store, nextId, reqs >>

\* main.py lines 258-263: the latest actual point
CurrentAqiPoint(rows) == SortByDate(rows)[Len(rows)]

\* main.py lines 287-309 and 396-405: today's actual row is added to the
\* forecast and the frame re-sorted; an exception (mixed date types) is
\* swallowed by the except clause, which returns an empty frame
gp_merge(p) ==
  /\ pc[p] = "gp_merge"
  /\ pc' = Set(pc, p, "done")
  /\ \/ /\ result' = Set(result, p,
             SortByDate(result[p] \o << FRow(today[p], CurrentAqiPoint(data[p].rows).aqi, FALSE) >>))
        /\ UNCHANGED err
     \/ /\ result' = Set(result, p, <<>>)
        /\ err' = Set(err, p, "merge")
  /\ UNCHANGED << op, name, data, steps, today, seed, df, model, raw, trace, period, store, nextId, reqs >>

\* main.py lines 457-497: historical rows plus the default heuristic forecast
HeuristicCsv(rows, sd) ==
  LET last_actual == rows[Len(rows)].aqi
      last_date == LastDate(rows)
  IN  [k \in 1..PredictSteps |->
         FRow(last_date + k,
              PyRound(Max2(0, last_actual - (k - 1) * 3 * Scale + Noise(sd, k))) * Scale, TRUE)]

Historical(rows) == [k \in 1..Len(rows) |-> FRow(rows[k].date, rows[k].aqi, FALSE)]

\* main.py lines 407-432 and 457-497
generate_predictions_from_csv(p) ==
  /\ pc[p] = "csv_start"
  /\ LET sorted == SortByDate(data[p].rows)
     IN  /\ data' = Set(data, p, Frame("column", sorted))
         /\ IF IsTimeSeries(name[p])
            THEN /\ name' = Set(name, p, Lower(name[p]))
                 /\ pc' = Set(pc, p, "fwm_prepare")
                 /\ UNCHANGED << result, err >>
            ELSE IF sorted = <<>>
            THEN /\ pc' = Set(pc, p, "failed")
                 /\ err' = Set(err, p, "heuristic")
                 /\ UNCHANGED << name, result >>
            ELSE /\ \E sd \in Seeds :
                      result' = Set(result, p, SortByDate(Historical(sorted) \o HeuristicCsv(sorted, sd)))
                 /\ pc' = Set(pc, p, "done")
                 /\ UNCHANGED << name, err >>
  /\ UNCHANGED << op, steps, today, seed, df, model, raw, trace, period, store, nextId, reqs >>

\* main.py lines 434-455: historical rows up to the last date, then the forecast
csv_merge(p) ==
  /\ pc[p] = "csv_merge"
  /\ LET last_date == LastDate(data[p].rows)
         hist == SelectSeq(Historical(data[p].rows), LAMBDA r : r.date <= last_date)
     IN  result' = Set(result, p, SortByDate(hist \o result[p]))
  /\ pc' = Set(pc, p, "done")
  /\ UNCHANGED << op, name, data, steps, today, seed, df, model, raw, err, trace, period, store, nextId, reqs >>

\* -------------------------------------------------- get_best_model_for_data
\* the effect of one fitter call made by get_best_model_for_data
BestStep(p, r, next) ==
  /\ store' = r.store
  /\ nextId' = IF r.store # store THEN nextId + 1 ELSE nextId
  /\ trace' = Set(trace, p, trace[p] \o r.ev)
  /\ period' = Set(period, p, r.period)
  /\ IF r.raised
     THEN /\ pc' = Set(pc, p, next)
          /\ err' = Set(err, p, IF next = "failed" THEN "fit" ELSE "none")
          /\ UNCHANGED model
     ELSE /\ model' = Set(model, p, r.model)
          /\ pc' = Set(pc, p, "done")
          /\ UNCHANGED err

\* line 241
best_start(p) ==
  /\ pc[p] = "best_start"
  /\ pc' = Set(pc, p, IF Len(data[p].rows) >= MinPoints THEN "best_sarimax" ELSE "best_auto")
  /\ UNCHANGED << op, name, data, steps, today, seed, df, model, raw, result, err, trace, period, store, nextId, reqs >>

\* lines 242-246
best_sarimax(p) ==
  /\ pc[p] = "best_sarimax"
  /\ \E o \in SarimaxOutcomes :
       BestStep(p, fit_sarimax_model(data[p], DefaultPeriod, o, store, nextId, 0), "best_auto")
  /\ UNCHANGED << op, name, data, steps, today, seed, df, raw, result, reqs >>

\* a slip: no fixed-order fallback after a failed automatic search
best_auto_no_fallback(p) ==
  /\ pc[p] = "best_auto"
  /\ \E o \in AutoOutcomes :
       BestStep(p, auto_arima_forecast(data[p], o, store, nextId, 0), "failed")
  /\ UNCHANGED << op, name, data, steps, today, seed, df, raw, result, reqs >>

\* lines 248-252 and 257-261
best_auto(p) ==
  /\ pc[p] = "best_auto"
  /\ \E o \in AutoOutcomes :
       BestStep(p, auto_arima_forecast(data[p], o, store, nextId, 0), "best_fixed")
  /\ UNCHANGED << op, name, data, steps, today, seed, df, raw, result, reqs >>

\* lines 254 and 263
best_fixed(p) ==
  /\ pc[p] = "best_fixed"
  /\ \E o \in ArimaOutcomes :
       BestStep(p, fit_arima_model(data[p], o, store, nextId, 0), "failed")
  /\ UNCHANGED << op, name, data, steps, today, seed, df, raw, result, reqs >>

\* a direct call of fit_sarimax_model with a requested seasonal period
sar_call(p) ==
  /\ pc[p] = "sar_call"
  /\ \E o \in SarimaxOutcomes :
       BestStep(p, fit_sarimax_model(data[p], period[p], o, store, nextId, 0), "failed")
  /\ UNCHANGED << op, name, data, steps, today, seed, df, raw, result, reqs >>

\* ------------------------------------------------------------ specification
Step(p) ==
  \/ RequestPredict(p) \/ RequestCsv(p) \/ RequestDirect(p)
  \/ RequestBest(p) \/ RequestSarimaxFit(p) \/ RequestPrepare(p)
  \/ prep_call(p)
  \/ generate_predictions(p) \/ gp_merge(p)
  \/ generate_predictions_from_csv(p) \/ csv_merge(p)
  \/ fwm_prepare(p) \/ fwm_load(p) \/ fwm_fit(p) \/ fwm_forecast(p)
  \/ fwm_refit(p) \/ fwm_retry(p) \/ fwm_post(p)
  \/ best_start(p) \/ best_sarimax(p) \/ best_auto(p) \/ best_fixed(p)
  \/ sar_call(p)
  \/ Return(p)

Next == \E p \in Active : Step(p)

Spec == Init /\ [][Next]_vars

\* ------------------------------------------------- interleaved requests
\* Two /api/predict requests served by two workers that share the models
\* directory: every step of forecast_with_model of one may fall between two
\* steps of the other.
RaceNames == {"ARIMA", "SARIMAX"}
RaceInputs == {Frame("column", SortByDate(RawSeries(n, MainShape(n)))) : n \in {MinPoints}}

RequestRace(p) ==
  \E nm \in RaceNames, d \in RaceInputs :
    Begin(p, "predict", nm, d, PredictSteps, LastDate(d.rows), 0, "gp_start")

StepRace(p) ==
  \/ RequestRace(p)
  \/ generate_predictions(p) \/ gp_merge(p)
  \/ fwm_prepare(p) \/ fwm_load(p) \/ fwm_fit(p) \/ fwm_forecast(p)
  \/ fwm_refit(p) \/ fwm_retry(p) \/ fwm_post(p)
  \/ Return(p)

NextRace == \E p \in Procs : StepRace(p)

SpecRace == Init /\ [][NextRace]_vars

\* ================================================================== claims
MaxDate(rows) == CHOOSE d \in DatesOf(rows) : \A e \in DatesOf(rows) : e <= d
MinDate(rows) == CHOOSE d \in DatesOf(rows) : \A e \in DatesOf(rows) : d <= e

\* forecast_with_model has returned its frame to its caller
FwmReturned(p) ==
  \/ op[p] = "direct" /\ pc[p] = "done"
  \/ pc[p] \in {"gp_merge", "csv_merge"}

\* C1: when forecast_with_model returns, it returns exactly `steps` points,
\* dated on the consecutive days after the latest date of the original input
\* series, whether or not the series was padded.
C1_Horizon ==
  \A p \in Procs : FwmReturned(p) =>
    /\ Len(result[p]) = steps[p]
    /\ \A i \in 1..steps[p] : result[p][i].date = MaxDate(data[p].rows) + i

\* a padded, unsorted series of 5 points forecast 2 steps ahead
C1_Witness ==
  /\ FwmReturned(1) /\ op[1] = "direct" /\ steps[1] = 2
  /\ Len(data[1].rows) = 5 /\ ~IsSortedRows(data[1].rows)
  /\ Len(df[1].rows) > Len(data[1].rows)

\* C2: every value forecast_with_model returns is a whole number >= 0, namely
\* 0 for a raw output that rounds to 0 or below and otherwise the integer
\* nearest to the raw output.
C2_NonNegativeWhole ==
  \A p \in Procs : FwmReturned(p) =>
    \A i \in 1..Len(result[p]) :
      LET v == result[p][i].aqi
          x == raw[p][i]
      IN  /\ v >= 0
          /\ v % Scale = 0
          /\ (2 * x <= Scale) => v = 0
          /\ (2 * x > Scale) => (2 * (v - x) <= Scale /\ 2 * (x - v) <= Scale)

\* a negative raw output was floored and a fractional one rounded
C2_Witness ==
  /\ FwmReturned(1)
  /\ \E i \in 1..Len(result[1]) : raw[1][i] < 0 /\ result[1][i].aqi = 0
  /\ \E i \in 1..Len(result[1]) : raw[1][i] % Scale # 0 /\ result[1][i].aqi > 0

\* prepare_data_for_ts has returned df[p] for the dated series data[p]
PreparedShort(p) ==
  /\ data[p].idx = "column"
  /\ Len(data[p].rows) >= 1 /\ Len(data[p].rows) < MinPoints
  /\ df[p] # EmptyFrame

\* C3: a dated raw series of 1..13 points is prepared into a series of at
\* least 14 points, sorted ascending by date, that contains every original
\* observation and whose other (synthetic) points are all dated strictly
\* before the earliest original date.
C3_ShortSeriesPadded ==
  \A p \in Procs : PreparedShort(p) =>
    /\ Len(df[p].rows) >= MinPoints
    /\ StrictlyIncreasing(df[p].rows)
    /\ RowsOf(data[p].rows) \subseteq RowsOf(df[p].rows)
    /\ \A r \in RowsOf(df[p].rows) \ RowsOf(data[p].rows) : r.date < MinDate(data[p].rows)

\* a direct call of prepare_data_for_ts on an unsorted series of 5 points
C3_Witness ==
  /\ PreparedShort(1) /\ op[1] = "prepare" /\ pc[1] = "done"
  /\ Len(data[1].rows) = 5 /\ ~IsSortedRows(data[1].rows)
  /\ Len(df[1].rows) > Len(data[1].rows)

Strategies == {"Seasonal", "AutoSearch", "FixedOrder"}
Chain == << "Seasonal", "AutoSearch", "FixedOrder" >>
Attempts(tr) == SelectSeq(tr, LAMBDA e : e \in Strategies)
Count(tr, ev) == Len(SelectSeq(tr, LAMBDA e : e = ev))
Occurs(tr, ev) == \E k \in 1..Len(tr) : tr[k] = ev
IsPrefix(a, b) == Len(a) <= Len(b) /\ a = SubSeq(b, 1, Len(a))
Rank(s) == CHOOSE k \in 1..Len(Chain) : Chain[k] = s

\* C5: get_best_model_for_data on a raw series of >= 14 points attempts the
\* strategies in the order Seasonal, AutoSearch, FixedOrder, each at most
\* once, and after a failed seasonal fit the automatic search is attempted.
C5_SeasonalAutoFixedOrder ==
  \A p \in Procs : (op[p] = "best" /\ Len(data[p].rows) >= MinPoints) =>
    /\ IsPrefix(Attempts(trace[p]), Chain)
    /\ (Finished(p) /\ model[p].alg # "sarimax") => Occurs(trace[p], "AutoSearch")

\* C6: get_best_model_for_data on a raw series of fewer than 14 points never
\* attempts the seasonal fit, attempts the automatic search first and once,
\* attempts the fixed-order fit (once) exactly when the automatic search
\* failed, and fails exactly when the fixed-order fit failed too.
C6_SmallSeriesAutoThenFixed ==
  \A p \in Procs : (op[p] = "best" /\ Len(data[p].rows) < MinPoints) =>
    /\ ~Occurs(trace[p], "Seasonal")
    /\ IsPrefix(Attempts(trace[p]), << "AutoSearch", "FixedOrder" >>)
    /\ Finished(p) =>
         /\ Count(trace[p], "AutoSearch") = 1
         /\ Occurs(trace[p], "FixedOrder") <=> model[p].alg # "auto"
         /\ model[p].alg \in {"auto", "arima", "none"}
         /\ (pc[p] = "failed") <=> (model[p] = NoModel)
         /\ (pc[p] = "failed") => (err[p] = "fit" /\ Attempts(trace[p]) = << "AutoSearch", "FixedOrder" >>)

\* both strategies failed on a series of 5 points and the error reached the caller
C6_Witness ==
  /\ op[1] = "best" /\ Len(data[1].rows) = 5 /\ pc[1] = "failed"
  /\ Attempts(trace[1]) = << "AutoSearch", "FixedOrder" >>

\* forecast_with_model was called, and is over once it has got past prepare
FwmCalled(p) == op[p] \in {"direct", "predict", "csv"}
FwmOver(p) ==
  /\ FwmCalled(p) /\ trace[p] # <<>>
  /\ pc[p] \in {"gp_merge", "csv_merge", "done", "failed"}

\* C7 as stated: after a failed first forecast attempt exactly one fresh fit
\* and exactly one more forecast attempt follow.
C7_RefitThenOneMoreForecast ==
  \A p \in Procs : (FwmOver(p) /\ Occurs(trace[p], "Refit")) =>
    /\ Count(trace[p], "Refit") = 1
    /\ Count(trace[p], "Forecast") = 2

\* C7 amended: at most two forecast attempts, at most one refit call and one
\* load; the refit follows the first failed attempt and never reads the
\* store; a second attempt follows exactly when the refit returned a model;
\* a failed refit or a failed second attempt ends the call with that error.
C7_AtMostOneRefit ==
  \A p \in Procs : FwmCalled(p) =>
    /\ Count(trace[p], "Forecast") <= 2
    /\ Count(trace[p], "Refit") <= 1
    /\ Count(trace[p], "Load") <= 1
    /\ \A k \in 1..Len(trace[p]) : trace[p][k] = "Load" => k = 1
    /\ \A k \in 1..Len(trace[p]) : trace[p][k] = "Refit" =>
         (k > 1 /\ trace[p][k - 1] = "Forecast"
                /\ Count(SubSeq(trace[p], 1, k), "Forecast") = 1)
    /\ Count(trace[p], "Forecast") = 2 => Occurs(trace[p], "Refit")
    /\ (FwmOver(p) /\ Occurs(trace[p], "Refit")) =>
         /\ err[p] = "refit" <=> Count(trace[p], "Forecast") = 1
         /\ err[p] = "forecast" =>
              (pc[p] \in {"done", "failed"} /\ trace[p][Len(trace[p])] = "Forecast")
         /\ err[p] \in {"refit", "forecast", "post", "merge", "none"}

\* both forecast attempts raised and the second error was surfaced
C7_Witness ==
  /\ FwmOver(1) /\ op[1] = "direct" /\ pc[1] = "failed" /\ err[1] = "forecast"
  /\ Count(trace[1], "Forecast") = 2 /\ Count(trace[1], "Refit") = 1

UnknownKind(model_name) == Lower(model_name) \notin {"arima", "sarimax"}

\* C8 as stated: an unknown model kind is refused at once, nothing is loaded,
\* fitted, saved or forecast.
C8_UnknownKindRefused ==
  \A p \in Procs : (op[p] = "direct" /\ UnknownKind(name[p])) =>
    (trace[p] = <<>> /\ ~FwmReturned(p))

\* C8 amended: an unknown model kind is not refused: the slot of that name is
\* loaded and, when absent, the automatic order search is the fitter; the
\* seasonal and fixed-order fits are never attempted and only the auto_arima
\* slot is ever saved.
C8_UnknownKindDefaultsToAuto ==
  \A p \in Procs : (op[p] = "direct" /\ UnknownKind(name[p])) =>
    /\ \A k \in 1..Len(trace[p]) :
         trace[p][k] \in {"Load", "AutoSearch", "SaveAuto", "Forecast", "Refit"}
    /\ trace[p] # <<>> => trace[p][1] = "Load"
    /\ Len(trace[p]) >= 2 =>
         \/ trace[p][2] = "AutoSearch"
         \/ trace[p][2] = "Forecast" /\ name[p] = "auto_arima"
    /\ FwmReturned(p) => model[p].alg = "auto"
    /\ err[p] \in {"none", "prepare", "fit", "refit", "forecast", "post"}

\* kind "prophet": loaded (absent), fitted by the automatic search, forecast
C8_Witness ==
  /\ op[1] = "direct" /\ name[1] = "prophet" /\ pc[1] = "done"
  /\ trace[1] = << "Load", "AutoSearch", "SaveAuto", "Forecast" >>

\* the part of the log that belongs to the fitter call that raised
FitPhase(tr) ==
  IF Occurs(tr, "Refit")
  THEN LET k == CHOOSE i \in 1..Len(tr) : tr[i] = "Refit" IN SubSeq(tr, k + 1, Len(tr))
  ELSE tr

\* C9: a fit error leaves forecast_with_model only when every strategy of the
\* chain from the first one attempted on has been attempted.
C9_FitErrorOnlyAfterChain ==
  \A p \in Procs : (FwmCalled(p) /\ err[p] \in {"fit", "refit"}) =>
    LET a == Attempts(FitPhase(trace[p]))
    IN  /\ a # <<>>
        /\ \A s \in Strategies : Rank(s) >= Rank(a[1]) => Occurs(a, s)

\* C10: an error of the seasonal fit never leaves fit_sarimax_model unless the
\* fixed-order fit was tried and failed too; otherwise the fixed-order model
\* is returned.
C10_SeasonalErrorCaught ==
  \A p \in Procs : (op[p] = "sarfit" /\ data[p].rows # <<>> /\ Finished(p)) =>
    /\ pc[p] = "failed" => Occurs(trace[p], "FixedOrder")
    /\ (pc[p] = "done" /\ model[p].alg # "sarimax") =>
         (model[p].alg = "arima" /\ Occurs(trace[p], "FixedOrder"))

\* C11: the seasonal period fit_sarimax_model hands to SARIMAX is a positive
\* integer not larger than half the length of the series being fitted.
C11_PeriodAtMostHalf ==
  \A p \in Procs :
    (op[p] = "sarfit" /\ Finished(p) /\ data[p].rows # <<>>) =>
      /\ period[p] >= 1
      /\ 2 * period[p] <= Len(prepare_data_for_ts(data[p], 0).df.rows)

\* C12: on the caller paths (generate_predictions, generate_predictions_from_csv)
\* forecast_with_model is never entered with a series of zero observations.
C12_CoreNeverGetsEmptySeries ==
  \A p \in Procs :
    (op[p] \in {"predict", "csv"} /\ pc[p] = "fwm_prepare") => data[p].rows # <<>>

\* the call found the slot of its kind absent at its load step and went on to fit
FoundAbsent(p) ==
  /\ FwmCalled(p) /\ Len(trace[p]) >= 2
  /\ trace[p][1] = "Load" /\ trace[p][2] # "Forecast"

\* C13: when forecast_with_model found the slot of its kind k absent and has
\* returned a forecast, the slot of k holds the fitted model that produced
\* the forecast (k ranging over the kinds that have a slot).
C13_AbsentSlotFilledByOwnModel ==
  \A p \in Procs : (FwmReturned(p) /\ FoundAbsent(p) /\ name[p] \in Slots) =>
    /\ model[p] # NoModel
    /\ load_model(name[p], store) = model[p]

\* the call loaded a model (its slot was present) and its forecast step did
\* not raise
HitNoRaise(p) ==
  /\ FwmCalled(p) /\ Len(trace[p]) >= 2
  /\ trace[p][1] = "Load" /\ trace[p][2] = "Forecast"
  /\ pc[p] # "fwm_refit" /\ ~Occurs(trace[p], "Refit")

SaveOf(s) ==
  CASE s = "arima" -> "SaveArima" [] s = "sarimax" -> "SaveSarimax" [] OTHER -> "SaveAuto"

\* a call that loaded a model never fits, and forecasts from the model its
\* slot holds
C14_HitState ==
  \A p \in Procs :
    /\ pc[p] = "fwm_fit" => model[p] = NoModel
    /\ (FwmCalled(p) /\ pc[p] = "fwm_forecast" /\ trace[p] = << "Load" >>) =>
         (model[p] # NoModel /\ model[p] = load_model(name[p], store))
    /\ HitNoRaise(p) =>
         /\ trace[p] = << "Load", "Forecast" >>
         /\ model[p] # NoModel /\ model[p] = load_model(name[p], store)

\* the steps of such a call leave the store alone, and a slot changes only
\* in a step that logs a save to that very slot
C14_HitStep ==
  /\ \A p \in Procs :
       ((pc[p] = "fwm_load" /\ load_model(name[p], store) # NoModel /\ pc'[p] # pc[p])
         \/ (pc[p] = "fwm_forecast" /\ trace[p] = << "Load" >> /\ pc'[p] = "fwm_post")
         \/ (pc[p] = "fwm_post" /\ trace[p] = << "Load", "Forecast" >> /\ pc'[p] # pc[p]))
       => store' = store
  /\ \A s \in Slots : store'[s] # store[s] =>
       \E p \in Procs :
         /\ Len(trace'[p]) > Len(trace[p])
         /\ Occurs(SubSeq(trace'[p], Len(trace[p]) + 1, Len(trace'[p])), SaveOf(s))

\* C14: once the slot of kind k is present, a later forecast_with_model call
\* of kind k whose forecast step does not raise performs no fit and leaves
\* every slot unchanged; it forecasts from the model the slot holds, and a
\* stored model is replaced only by a save to the same slot.
C14_HitLeavesStoreAlone == [] C14_HitState /\ [][C14_HitStep]_vars

\* a second request served from the model an earlier request saved
C14_Witness ==
  /\ reqs = 2 /\ FwmReturned(1) /\ trace[1] = << "Load", "Forecast" >>
  /\ name[1] = "arima" /\ model[1] = store["arima"] /\ model[1] # NoModel

\* C15: a dated series of n = 1..13 points gets exactly 14 - n synthetic
\* points and is prepared to length exactly 14; a series of 14 or more points
\* gets none.
C15_PaddedToExactly14 ==
  \A p \in Procs :
    /\ PreparedShort(p) =>
         /\ Len(df[p].rows) = MinPoints
         /\ Cardinality(RowsOf(df[p].rows) \ RowsOf(data[p].rows)) = MinPoints - Len(data[p].rows)
    /\ (data[p].idx = "column" /\ Len(data[p].rows) >= MinPoints /\ df[p] # EmptyFrame) =>
         RowsOf(df[p].rows) = RowsOf(data[p].rows) /\ Len(df[p].rows) = Len(data[p].rows)

RowAt(rows, d) == CHOOSE r \in RowsOf(rows) : r.date = d

\* C16: the i-th synthetic point is dated i days before the earliest original
\* date, carries max(0, first - avg_change * i + noise_i) >= 0 in the target
\* field and 0 in every other field, where avg_change is the mean first
\* difference, i.e. (last - first) / (n - 1), and 0 for a single point; the
\* original observations are kept as they are.
C16_SyntheticValues ==
  \A p \in Procs : PreparedShort(p) =>
    LET n == Len(data[p].rows)
        e == MinDate(data[p].rows)
        first == RowAt(data[p].rows, e).aqi
        last == RowAt(data[p].rows, MaxDate(data[p].rows)).aqi
        avg == IF n >= 2 THEN (last - first) \div (n - 1) ELSE 0
        synth == RowsOf(df[p].rows) \ RowsOf(data[p].rows)
        k == Len(df[p].rows) - n
    IN  /\ n >= 2 => (last - first) % (n - 1) = 0
        /\ RowsOf(data[p].rows) \subseteq RowsOf(df[p].rows)
        /\ Cardinality(synth) = k
        /\ \A i \in 1..k :
             \E r \in synth :
               /\ r.date = e - i
               /\ r.pm25 = 0
               /\ r.aqi >= 0
               /\ r.aqi = Max2(0, first - avg * i + Noise(seed[p], i))

\* a rising series of 5 points: some synthetic values are floored at 0 and
\* some are not
C16_Witness ==
  /\ PreparedShort(1) /\ op[1] = "prepare" /\ pc[1] = "done" /\ Len(data[1].rows) = 5
  /\ AvgChange(SortByDate(data[1].rows)) > 0
  /\ \E r \in RowsOf(df[1].rows) \ RowsOf(data[1].rows) : r.aqi = 0
  /\ \E r \in RowsOf(df[1].rows) \ RowsOf(data[1].rows) : r.aqi > 0

\* forecast_with_model has returned a forecast to the request of p
Served(p) ==
  /\ op[p] = "predict" /\ pc[p] \in {"gp_merge", "done"}
  /\ trace[p] # <<>> /\ trace[p][Len(trace[p])] = "Forecast"
  /\ err[p] \in {"none", "merge"}

\* C17: when two interleaved requests of the same kind both found the slot
\* absent and both returned a forecast, the slot holds one of the two fitted
\* models, the one saved last, never nothing, and each request forecast from
\* its own model.
C17_LastWriterWins ==
  \A p, q \in Procs :
    (p # q /\ name[p] = name[q] /\ Served(p) /\ Served(q)
       /\ FoundAbsent(p) /\ FoundAbsent(q)) =>
      /\ model[p] # NoModel /\ model[q] # NoModel /\ model[p] # model[q]
      /\ store[name[p]] # NoModel
      /\ store[name[p]] \in {model[p], model[q]}
      /\ store[name[p]].id >= model[p].id /\ store[name[p]].id >= model[q].id
====
